---------------------------- MODULE Spec2Model ----------------------------
(***************************************************************************)
(* A model of slack-message-pipe: the Slack markup converter               *)
(* (slack_text_converter.py), the paginated fetches of SlackService        *)
(* (slack_service.py), the fetch / thread-merge of SlackDataFormatter      *)
(* (slack_data_formatter.py), the Markdown renderer                        *)
(* (format_as_markdown.py) and the command line's export loop (cli.py).    *)
(*                                                                         *)
(* Python strings are TLA+ strings; a Python value that may be None is a   *)
(* sequence of length 0 (None) or 1; a call that may raise returns a       *)
(* record [ok, val] or [ok, exc].                                          *)
(***************************************************************************)
EXTENDS Integers, Sequences, FiniteSets, TLC

(***************************************************************************)
(* Python values                                                           *)
(***************************************************************************)
None == <<>>
Some(v) == <<v>>

Ok(v) == [ok |-> TRUE, val |-> v]
Raise(e) == [ok |-> FALSE, exc |-> e]

\* The statements after a call that may raise: F of the value it returned,
\* or its exception
Then(r, F(_)) == IF r.ok THEN F(r.val) ELSE r

\* dict.get(key, default)
Get(d, key, default) == IF key \in DOMAIN d THEN d[key] ELSE default

Min(a, b) == IF a <= b THEN a ELSE b

(***************************************************************************)
(* Strings                                                                 *)
(***************************************************************************)
Char(s, i) == SubSeq(s, i, i)

\* s[i:] with i counted from 1
From(s, i) == SubSeq(s, i, Len(s))

StartsWith(s, p) == Len(s) >= Len(p) /\ SubSeq(s, 1, Len(p)) = p

\* The first index k >= i with Char(s, k) = c, and 0 when there is none.
RECURSIVE IndexOf(_, _, _)
IndexOf(s, c, i) ==
    IF i > Len(s) THEN 0
    ELSE IF Char(s, i) = c THEN i
    ELSE IndexOf(s, c, i + 1)

\* str.split(sep) for a separator of one character
RECURSIVE Split(_, _)
Split(s, sep) ==
    LET k == IndexOf(s, sep, 1)
    IN  IF k = 0 THEN <<s>>
        ELSE <<SubSeq(s, 1, k - 1)>> \o Split(From(s, k + 1), sep)

WhiteSpace == {" ", "\n", "\t", "\r"}

RECURSIVE LStrip(_)
LStrip(s) ==
    IF Len(s) > 0 /\ Char(s, 1) \in WhiteSpace THEN LStrip(From(s, 2)) ELSE s

RECURSIVE RStrip(_)
RStrip(s) ==
    IF Len(s) > 0 /\ Char(s, Len(s)) \in WhiteSpace
    THEN RStrip(SubSeq(s, 1, Len(s) - 1))
    ELSE s

\* str.strip()
Strip(s) == RStrip(LStrip(s))

\* The characters the regular expressions' \w and \b count as word characters.
WordChars ==
    { "a", "b", "c", "d", "e", "f", "g", "h", "i", "j", "k", "l", "m",
      "n", "o", "p", "q", "r", "s", "t", "u", "v", "w", "x", "y", "z",
      "A", "B", "C", "D", "E", "F", "G", "H", "I", "J", "K", "L", "M",
      "N", "O", "P", "Q", "R", "S", "T", "U", "V", "W", "X", "Y", "Z",
      "0", "1", "2", "3", "4", "5", "6", "7", "8", "9", "_" }

IsWordAt(s, i) == i >= 1 /\ i <= Len(s) /\ Char(s, i) \in WordChars

\* \b between position i - 1 and position i
BoundaryBefore(s, i) == IsWordAt(s, i - 1) # IsWordAt(s, i)

\* The first index k >= i with Char(s, k) = c such that no newline lies in
\* s[i .. k - 1] ("." matches no newline), and 0 when there is none.
RECURSIVE LazyUntil(_, _, _)
LazyUntil(s, c, i) ==
    IF i > Len(s) THEN 0
    ELSE IF Char(s, i) = c THEN i
    ELSE IF Char(s, i) = "\n" THEN 0
    ELSE LazyUntil(s, c, i + 1)

\* The end of the line that holds position i: the index of the last
\* character before the next newline.
RECURSIVE LineEnd(_, _)
LineEnd(s, i) ==
    IF i > Len(s) \/ Char(s, i) = "\n" THEN i - 1 ELSE LineEnd(s, i + 1)

(***************************************************************************)
(* SlackTextConverter (slack_text_converter.py)                            *)
(***************************************************************************)
\* The three lookup maps of SlackService that the converter reads.
Maps(users, channels, usergroups) ==
    [users |-> users, channels |-> channels, usergroups |-> usergroups]

_process_user_id(user_id, maps) ==
    "@" \o Get(maps.users, user_id, "user_" \o user_id)

_process_channel_id(channel_id, maps) ==
    "#" \o Get(maps.channels, channel_id, "channel_" \o channel_id)

IndexError == Raise([type |-> "IndexError"])

\* parts[i] of a Python list, i counted from 0
Item(parts, i) == IF i + 1 <= Len(parts) THEN Ok(parts[i + 1]) ELSE IndexError

\* A usergroup lookup whose fallback is the empty name
_process_user_group_id_empty(usergroup_match, maps) ==
    Then(Item(Split(usergroup_match, "^"), 1), LAMBDA usergroup_id :
        Ok("@" \o Get(maps.usergroups, usergroup_id, "")))

_process_user_group_id(usergroup_match, maps) ==
    Then(Item(Split(usergroup_match, "^"), 1), LAMBDA usergroup_id :
        Ok("@" \o Get(maps.usergroups, usergroup_id,
                      "usergroup_" \o usergroup_id)))

\* A special mention that takes every "!date" token for a date with an id
_process_special_mention_any_date(special_mention) ==
    IF special_mention = "!here" THEN Ok("@here")
    ELSE IF special_mention = "!channel" THEN Ok("@channel")
    ELSE IF special_mention = "!everyone" THEN Ok("@everyone")
    ELSE IF StartsWith(special_mention, "!date")
         THEN Item(Split(special_mention, "^"), 1)
    ELSE Ok("@" \o special_mention)

_process_special_mention(special_mention) ==
    IF special_mention = "!here" THEN Ok("@here")
    ELSE IF special_mention = "!channel" THEN Ok("@channel")
    ELSE IF special_mention = "!everyone" THEN Ok("@everyone")
    ELSE IF StartsWith(special_mention, "!date^")
         THEN Item(Split(special_mention, "^"), 1)
    ELSE Ok("@" \o special_mention)

_process_url(url_match) ==
    LET parts == Split(url_match, "|")
        url   == Strip(parts[1])
        text  == IF Len(parts) = 2 THEN Strip(parts[2]) ELSE url
    IN  "[" \o text \o "](" \o url \o ")"

\* A dispatch that tries the special mentions before the usergroups
_replace_markdown_in_text_special_first(match, maps) ==
    IF StartsWith(match, "@U") \/ StartsWith(match, "@W")
        THEN Ok(_process_user_id(From(match, 2), maps))
    ELSE IF StartsWith(match, "#C")
        THEN Ok(_process_channel_id(From(match, 2), maps))
    ELSE IF StartsWith(match, "!")
        THEN _process_special_mention(match)
    ELSE IF StartsWith(match, "!subteam^")
        THEN _process_user_group_id(match, maps)
    ELSE Ok(_process_url(match))

_replace_markdown_in_text(match, maps) ==
    IF StartsWith(match, "@U") \/ StartsWith(match, "@W")
        THEN Ok(_process_user_id(From(match, 2), maps))
    ELSE IF StartsWith(match, "#C")
        THEN Ok(_process_channel_id(From(match, 2), maps))
    ELSE IF StartsWith(match, "!subteam^")
        THEN _process_user_group_id(match, maps)
    ELSE IF StartsWith(match, "!")
        THEN _process_special_mention(match)
    ELSE Ok(_process_url(match))

\* The end of the match of  <(.*?)>  that starts at i, and 0 when there is
\* none
BracketEnd(s, i) == IF Char(s, i) = "<" THEN LazyUntil(s, ">", i + 1) ELSE 0

\* re.sub(r"<(.*?)>", self._replace_markdown_in_text, s), from position i:
\* the text, or the exception of the replacement function
RECURSIVE SubBrackets(_, _, _)
SubBrackets(s, i, maps) ==
    IF i > Len(s) THEN Ok("")
    ELSE IF BracketEnd(s, i) # 0
    THEN Then(_replace_markdown_in_text(
                  SubSeq(s, i + 1, BracketEnd(s, i) - 1), maps),
              LAMBDA replacement :
                  Then(SubBrackets(s, BracketEnd(s, i) + 1, maps),
                       LAMBDA rest : Ok(replacement \o rest)))
    ELSE Then(SubBrackets(s, i + 1, maps),
              LAMBDA rest : Ok(Char(s, i) \o rest))

\* The end of a match of  d(.+?)d  that starts at i, and 0 when there is none:
\* the group takes at least one character, none of them a newline.
DelimitedEnd(s, d, i) ==
    IF i + 1 > Len(s) \/ Char(s, i) # d \/ Char(s, i + 1) = "\n" THEN 0
    ELSE LazyUntil(s, d, i + 2)

\* re.sub(r"\*(.+?)\*", r"**\1**", s), from position i
RECURSIVE SubBold(_, _)
SubBold(s, i) ==
    IF i > Len(s) THEN ""
    ELSE LET j == DelimitedEnd(s, "*", i)
         IN  IF j # 0
             THEN "**" \o SubSeq(s, i + 1, j - 1) \o "**" \o SubBold(s, j + 1)
             ELSE Char(s, i) \o SubBold(s, i + 1)

\* The end of a match of  \b_(.+?)_\b  that starts at i, and 0 when there is
\* none: the closing "_" is the first one, after at least one character of
\* the line, that a word boundary follows.
RECURSIVE ItalicClose(_, _)
ItalicClose(s, k) ==
    LET j == LazyUntil(s, "_", k)
    IN  IF j = 0 THEN 0
        ELSE IF BoundaryBefore(s, j + 1) THEN j
        ELSE ItalicClose(s, j + 1)

ItalicEnd(s, i) ==
    IF i + 1 > Len(s) \/ Char(s, i) # "_" \/ ~BoundaryBefore(s, i)
       \/ Char(s, i + 1) = "\n"
    THEN 0
    ELSE ItalicClose(s, i + 2)

\* re.sub(r"\b_(.+?)_\b", r"_\1_", s), from position i
RECURSIVE SubItalic(_, _)
SubItalic(s, i) ==
    IF i > Len(s) THEN ""
    ELSE LET j == ItalicEnd(s, i)
         IN  IF j # 0
             THEN "_" \o SubSeq(s, i + 1, j - 1) \o "_" \o SubItalic(s, j + 1)
             ELSE Char(s, i) \o SubItalic(s, i + 1)

\* The backtick, which a TLA+ string cannot hold: the model writes it "~".
BackTick == "~"

\* re.sub(r"BackTick(.+?)BackTick", r"BackTick\1BackTick", s), from position i
RECURSIVE SubCode(_, _)
SubCode(s, i) ==
    IF i > Len(s) THEN ""
    ELSE LET j == DelimitedEnd(s, BackTick, i)
         IN  IF j # 0
             THEN BackTick \o SubSeq(s, i + 1, j - 1) \o BackTick
                    \o SubCode(s, j + 1)
             ELSE Char(s, i) \o SubCode(s, i + 1)

\* re.sub(r"^>(.+)", r"> \1", s, flags=re.MULTILINE), from position i
RECURSIVE SubQuote(_, _)
SubQuote(s, i) ==
    IF i > Len(s) THEN ""
    ELSE LET atLineStart == i = 1 \/ Char(s, i - 1) = "\n"
             e == LineEnd(s, i)
         IN  IF atLineStart /\ Char(s, i) = ">" /\ e >= i + 1
             THEN "> " \o SubSeq(s, i + 1, e) \o SubQuote(s, e + 1)
             ELSE Char(s, i) \o SubQuote(s, i + 1)

\* The four passes of convert_slack_text after the bracket pass, in its order
LaterPasses(brackets) ==
    SubQuote(SubCode(SubItalic(SubBold(brackets, 1), 1), 1), 1)

\* The five passes of convert_slack_text, in its order
ConvertMarkup(text, maps) ==
    Then(SubBrackets(text, 1, maps),
         LAMBDA brackets : Ok(LaterPasses(brackets)))

\* A converter that runs its passes whatever is_markdown says
convert_always(text, is_markdown, maps) == ConvertMarkup(text, maps)

\* convert_slack_text: the text it returns, or the exception it raises
convert_slack_text(text, is_markdown, maps) ==
    IF ~is_markdown THEN Ok(text) ELSE ConvertMarkup(text, maps)

(***************************************************************************)
(* Numbers and timestamps                                                  *)
(***************************************************************************)
Digits == "0123456789"

DigitChar(d) == SubSeq(Digits, d + 1, d + 1)

DigitValue(c) == CHOOSE d \in 0..9 : DigitChar(d) = c

IsDigits(s) == \A i \in 1..Len(s) : \E d \in 0..9 : DigitChar(d) = Char(s, i)

\* The value of a string of decimal digits ("" is 0)
RECURSIVE ParseNat(_)
ParseNat(s) ==
    IF Len(s) = 0 THEN 0
    ELSE 10 * ParseNat(SubSeq(s, 1, Len(s) - 1)) + DigitValue(Char(s, Len(s)))

\* str(n) for n >= 0
RECURSIVE IntToStr(_)
IntToStr(n) ==
    IF n < 10 THEN DigitChar(n) ELSE IntToStr(n \div 10) \o DigitChar(n % 10)

\* "%02d" % n
Pad2(n) == IF n < 10 THEN "0" \o IntToStr(n) ELSE IntToStr(n)

\* "%04d" % n
Pad4(n) ==
    IF n < 10 THEN "000" \o IntToStr(n)
    ELSE IF n < 100 THEN "00" \o IntToStr(n)
    ELSE IF n < 1000 THEN "0" \o IntToStr(n)
    ELSE IntToStr(n)

\* float(ts) for the decimal notations "12", "12.5", "12." and ".5", as whole
\* seconds; any other string raises ValueError.
ParseSeconds(ts) ==
    LET parts == Split(ts, ".")
    IN  IF /\ Len(parts) <= 2
           /\ \A i \in 1..Len(parts) : IsDigits(parts[i])
           /\ \E i \in 1..Len(parts) : Len(parts[i]) > 0
        THEN Ok(ParseNat(parts[1]))
        ELSE Raise([type |-> "ValueError", arg |-> ts])

\* The UTC calendar date of a day counted from 1970-01-01, as "YYYY-MM-DD"
CivilDate(days) ==
    LET z   == days + 719468
        era == z \div 146097
        doe == z - era * 146097
        yoe == (doe - doe \div 1460 + doe \div 36524 - doe \div 146096) \div 365
        doy == doe - (365 * yoe + yoe \div 4 - yoe \div 100)
        mp  == (5 * doy + 2) \div 153
        d   == doy - (153 * mp + 2) \div 5 + 1
        m   == IF mp < 10 THEN mp + 3 ELSE mp - 9
        y   == yoe + era * 400 + (IF m <= 2 THEN 1 ELSE 0)
    IN  Pad4(y) \o "-" \o Pad2(m) \o "-" \o Pad2(d)

\* dt.datetime.fromtimestamp(seconds, tz=pytz.utc).strftime("%Y-%m-%d %H:%M:%S GMT")
StrfTimeGMT(seconds) ==
    LET sod == seconds % 86400
    IN  CivilDate(seconds \div 86400) \o " " \o Pad2(sod \div 3600) \o ":"
          \o Pad2((sod % 3600) \div 60) \o ":" \o Pad2(sod % 60) \o " GMT"

_format_slack_ts_for_display(ts) ==
    Then(ParseSeconds(ts), LAMBDA seconds : Ok(StrfTimeGMT(seconds)))

(***************************************************************************)
(* SlackDataFormatter (slack_data_formatter.py) and the records of         *)
(* intermediate_data.py.  A raw Slack message, attachment, file, reaction  *)
(* or block is a record that holds the keys the Slack API sent.            *)
(***************************************************************************)
KeyError(key) == Raise([type |-> "KeyError", arg |-> key])

TypeError(what) == Raise([type |-> "TypeError", arg |-> what])

\* d.get(key), which is None for a missing key
OptGet(d, key) == IF key \in DOMAIN d THEN Some(d[key]) ELSE None

\* The results of a list comprehension over calls that may raise: the list of
\* their values, or the first exception.
Collect(rs) ==
    IF \A i \in 1..Len(rs) : rs[i].ok
    THEN Ok([i \in 1..Len(rs) |-> rs[i].val])
    ELSE LET bad == CHOOSE i \in 1..Len(rs) :
                        ~rs[i].ok /\ \A j \in 1..(i - 1) : rs[j].ok
         IN  Raise(rs[bad].exc)

\* The dataclasses User, Channel and ChannelExportData
User(id, name) == [id |-> id, name |-> name]

Channel(id, name) == [id |-> id, name |-> name]

ChannelExportData(channel, top_level_messages) ==
    [channel |-> channel, top_level_messages |-> top_level_messages]

\* The fields of the dataclass Message that its constructor's caller leaves
\* at their defaults
MessageDefaults == [parent_user_id |-> None, replies |-> <<>>]

_format_reaction(reaction) ==
    IF "name" \notin DOMAIN reaction THEN KeyError("name")
    ELSE IF "count" \notin DOMAIN reaction THEN KeyError("count")
    ELSE IF "users" \notin DOMAIN reaction THEN KeyError("users")
    ELSE Ok([name |-> reaction.name, count |-> reaction.count,
             user_ids |-> reaction.users])

_format_file(file) ==
    IF "id" \notin DOMAIN file THEN KeyError("id")
    ELSE IF "url_private" \notin DOMAIN file THEN KeyError("url_private")
    ELSE IF "name" \notin DOMAIN file THEN KeyError("name")
    ELSE IF "filetype" \notin DOMAIN file THEN KeyError("filetype")
    ELSE Then(IF "timestamp" \in DOMAIN file
              THEN ParseSeconds(file.timestamp) ELSE Ok(0),
              LAMBDA seconds :
                  Ok([id |-> file.id, url |-> file.url_private,
                      name |-> file.name, filetype |-> file.filetype,
                      title |-> OptGet(file, "title"), preview |-> None,
                      mimetype |-> OptGet(file, "mimetype"),
                      size |-> OptGet(file, "size"),
                      timestamp |-> IF "timestamp" \in DOMAIN file
                                    THEN Some(seconds) ELSE None]))

\* self._message_to_markdown.transform_text: the converter the command line
\* hands to the formatter is SlackTextConverter.
transform_text(text, is_markdown, maps) ==
    convert_slack_text(text, is_markdown, maps)

\* A flag that is on for any attachment that lists a field in mrkdwn_in
_format_attachment_any_field(attachment, maps) ==
    LET mrkdwn_in   == Get(attachment, "mrkdwn_in", <<>>)
        is_markdown == mrkdwn_in # <<>>
    IN  Then(transform_text(Get(attachment, "text", ""), is_markdown, maps),
             LAMBDA text :
        Ok([fallback |-> Get(attachment, "fallback", ""),
            text |-> text,
            pretext |-> OptGet(attachment, "pretext"),
            title |-> OptGet(attachment, "title"),
            title_link |-> OptGet(attachment, "title_link"),
            author_name |-> OptGet(attachment, "author_name"),
            footer |-> OptGet(attachment, "footer"),
            image_url |-> OptGet(attachment, "image_url"),
            color |-> OptGet(attachment, "color")]))

_format_attachment(attachment, maps) ==
    LET mrkdwn_in   == Get(attachment, "mrkdwn_in", <<>>)
        is_markdown == \E i \in 1..Len(mrkdwn_in) : mrkdwn_in[i] = "text"
    IN  Then(transform_text(Get(attachment, "text", ""), is_markdown, maps),
             LAMBDA text :
        Ok([fallback |-> Get(attachment, "fallback", ""),
            text |-> text,
            pretext |-> OptGet(attachment, "pretext"),
            title |-> OptGet(attachment, "title"),
            title_link |-> OptGet(attachment, "title_link"),
            author_name |-> OptGet(attachment, "author_name"),
            footer |-> OptGet(attachment, "footer"),
            image_url |-> OptGet(attachment, "image_url"),
            color |-> OptGet(attachment, "color")]))

\* Element has the one field type, and _format_element hands its
\* constructor type and text.
_format_element(element) ==
    IF "type" \notin DOMAIN element THEN KeyError("type")
    ELSE IF "text" \in DOMAIN element /\ "type" \notin DOMAIN element.text
        THEN KeyError("type")
    ELSE IF "text" \in DOMAIN element /\ "text" \notin DOMAIN element.text
        THEN KeyError("text")
    ELSE TypeError("Element.__init__() got an unexpected keyword argument 'text'")

\* Block has the one field type, and _format_block hands its constructor
\* type, text, fields, accessory and elements.
_format_block(block) ==
    IF "type" \notin DOMAIN block THEN KeyError("type")
    ELSE IF "text" \in DOMAIN block /\ "type" \notin DOMAIN block.text
        THEN KeyError("type")
    ELSE IF "text" \in DOMAIN block /\ "text" \notin DOMAIN block.text
        THEN KeyError("text")
    ELSE IF "fields" \in DOMAIN block
            /\ \E i \in 1..Len(block.fields) :
                   {"type", "text"} \ DOMAIN block.fields[i] # {}
        THEN KeyError(IF \E i \in 1..Len(block.fields) :
                             /\ "type" \notin DOMAIN block.fields[i]
                             /\ \A j \in 1..(i - 1) :
                                    {"type", "text"} \subseteq DOMAIN block.fields[j]
                      THEN "type" ELSE "text")
    ELSE IF "accessory" \in DOMAIN block THEN _format_element(block.accessory)
    ELSE IF "elements" \in DOMAIN block /\ Len(block.elements) > 0
        THEN _format_element(block.elements[1])
    ELSE TypeError("Block.__init__() got an unexpected keyword argument 'text'")

\* The list comprehensions of _format_message
FormatAll(raw, F(_)) == Collect([i \in 1..Len(raw) |-> F(raw[i])])

_format_message(msg, maps) ==
    LET by_user == Get(msg, "user", "")
        user_id == IF by_user # "" THEN by_user ELSE Get(msg, "bot_id", "")
        user    == IF user_id # ""
                   THEN Some(User(user_id,
                                  Get(maps.users, user_id,
                                      "unknown_user_" \o user_id)))
                   ELSE None
        thread_ts == OptGet(msg, "thread_ts")
        has_thread_ts == thread_ts # None /\ thread_ts[1] # ""
    IN  IF "ts" \notin DOMAIN msg THEN KeyError("ts") ELSE
        Then(_format_slack_ts_for_display(msg.ts), LAMBDA ts_display :
        Then(IF has_thread_ts
             THEN _format_slack_ts_for_display(thread_ts[1]) ELSE Ok(""),
             LAMBDA thread_ts_display :
        IF "text" \notin DOMAIN msg THEN KeyError("text") ELSE
        Then(transform_text(msg.text, Get(msg, "mrkdwn", TRUE), maps),
             LAMBDA text :
        Then(FormatAll(Get(msg, "reactions", <<>>), _format_reaction),
             LAMBDA reactions :
        Then(FormatAll(Get(msg, "files", <<>>), _format_file),
             LAMBDA files_ :
        Then(FormatAll(Get(msg, "attachments", <<>>),
                       LAMBDA a : _format_attachment(a, maps)),
             LAMBDA attachments :
        Then(FormatAll(Get(msg, "blocks", <<>>), _format_block),
             LAMBDA blocks :
        Ok([user |-> user,
            ts |-> msg.ts,
            thread_ts |-> thread_ts,
            ts_display |-> ts_display,
            thread_ts_display |->
                IF has_thread_ts THEN Some(thread_ts_display) ELSE None,
            text |-> text,
            reactions |-> reactions,
            files |-> files_,
            attachments |-> attachments,
            blocks |-> blocks,
            is_bot |-> "bot_id" \in DOMAIN msg] @@ MessageDefaults))))))))

\* A lookup that gives a thread without parent to the last message
ParentIndexOrLast(top_level_messages, ts) ==
    LET having == {i \in 1..Len(top_level_messages) :
                       top_level_messages[i].ts = ts}
    IN  IF having = {} THEN Len(top_level_messages)
        ELSE CHOOSE i \in having : \A j \in having : j <= i

\* parent_messages_by_ts.get(ts): of the messages with this ts the dict
\* comprehension keeps the last one; 0 when there is none.
ParentIndex(top_level_messages, ts) ==
    LET having == {i \in 1..Len(top_level_messages) :
                       top_level_messages[i].ts = ts}
    IN  IF having = {} THEN 0
        ELSE CHOOSE i \in having : \A j \in having : j <= i

\* An inner loop that does not skip the entry of the parent
RECURSIVE NestRepliesWithParent(_, _, _, _, _)
NestRepliesWithParent(parent_message, thread_ts, thread_messages, k, maps) ==
    IF k > Len(thread_messages) THEN Ok(parent_message)
    ELSE IF "ts" \notin DOMAIN thread_messages[k] THEN KeyError("ts")
    ELSE Then(_format_message(thread_messages[k], maps),
              LAMBDA reply_message :
                  NestRepliesWithParent(
                      [parent_message EXCEPT
                          !.replies = Append(@, reply_message)],
                      thread_ts, thread_messages, k + 1, maps))

\* The inner loop of fetch_and_format_channel_data: the replies of one
\* thread, from the k-th on, appended to parent_message.replies
RECURSIVE NestReplies(_, _, _, _, _)
NestReplies(parent_message, thread_ts, thread_messages, k, maps) ==
    IF k > Len(thread_messages) THEN Ok(parent_message)
    ELSE IF "ts" \notin DOMAIN thread_messages[k] THEN KeyError("ts")
    ELSE Then(IF thread_messages[k].ts = thread_ts
              THEN Ok(parent_message)
              ELSE Then(_format_message(thread_messages[k], maps),
                        LAMBDA reply_message :
                            Ok([parent_message EXCEPT
                                   !.replies = Append(@, reply_message)])),
              LAMBDA parent :
                  NestReplies(parent, thread_ts, thread_messages, k + 1, maps))

\* The outer loop: threads_by_ts.items() from the t-th thread on.  The dict
\* threads_by_ts is the sequence of its items [thread_ts, messages] in
\* insertion order.
RECURSIVE NestThreads(_, _, _, _)
NestThreads(top_level_messages, threads_by_ts, t, maps) ==
    IF t > Len(threads_by_ts) THEN Ok(top_level_messages)
    ELSE Then(IF ParentIndex(top_level_messages, threads_by_ts[t].thread_ts) = 0
              THEN Ok(top_level_messages)
              ELSE Then(NestReplies(
                            top_level_messages[
                                ParentIndex(top_level_messages,
                                            threads_by_ts[t].thread_ts)],
                            threads_by_ts[t].thread_ts,
                            threads_by_ts[t].messages, 1, maps),
                        LAMBDA parent_message :
                            Ok([top_level_messages EXCEPT
                                   ![ParentIndex(top_level_messages,
                                                 threads_by_ts[t].thread_ts)]
                                       = parent_message])),
              LAMBDA nested : NestThreads(nested, threads_by_ts, t + 1, maps))

\* fetch_and_format_channel_data from the two fetches on: what it returns,
\* or the exception it logs and raises again.
FormatChannelData(channel_id, top_level_slack_messages, threads_by_ts, maps) ==
    Then(Collect([i \in 1..Len(top_level_slack_messages) |->
                     _format_message(top_level_slack_messages[i], maps)]),
         LAMBDA top_level_messages :
             Then(NestThreads(top_level_messages, threads_by_ts, 1, maps),
                  LAMBDA nested :
                      Ok(ChannelExportData(
                             Channel(channel_id,
                                     Get(maps.channels, channel_id,
                                         "channel_" \o channel_id)),
                             nested))))

(***************************************************************************)
(* SlackService.fetch_bot_names_for_messages (slack_service.py)           *)
(*                                                                         *)
(* The locals of the call are a record: bot_id (None while the name is     *)
(* unbound), bot_names (the dict, as a function) and bot_ids (the list, of *)
(* which only the set of its elements is used).                            *)
(***************************************************************************)
UnboundLocalError(name) == Raise([type |-> "UnboundLocalError", arg |-> name])

\* msg.get("username") is truthy
HasUsername(msg) == "username" \in DOMAIN msg /\ msg.username # ""

\* The first loop from the k-th message on: each message with a bot_id binds
\* the local bot_id.
RECURSIVE CollectFromMessages(_, _, _)
CollectFromMessages(messages, k, locals) ==
    IF k > Len(messages) THEN locals
    ELSE IF "bot_id" \notin DOMAIN messages[k]
        THEN CollectFromMessages(messages, k + 1, locals)
    ELSE IF HasUsername(messages[k])
        THEN CollectFromMessages(messages, k + 1,
                 [bot_id |-> Some(messages[k].bot_id),
                  bot_names |-> (messages[k].bot_id :> messages[k].username)
                                    @@ locals.bot_names,
                  bot_ids |-> locals.bot_ids])
    ELSE CollectFromMessages(messages, k + 1,
             [bot_id |-> Some(messages[k].bot_id),
              bot_names |-> locals.bot_names,
              bot_ids |-> locals.bot_ids \cup {messages[k].bot_id}])

\* The inner loop of the second loop from the k-th message of a thread on:
\* it reads the local bot_id and never binds it.
RECURSIVE CollectFromThread(_, _, _)
CollectFromThread(thread_messages, k, locals) ==
    IF k > Len(thread_messages) THEN Ok(locals)
    ELSE IF "bot_id" \notin DOMAIN thread_messages[k]
        THEN CollectFromThread(thread_messages, k + 1, locals)
    ELSE IF locals.bot_id = None THEN UnboundLocalError("bot_id")
    ELSE IF HasUsername(thread_messages[k])
        THEN CollectFromThread(thread_messages, k + 1,
                 [locals EXCEPT !.bot_names =
                     (locals.bot_id[1] :> thread_messages[k].username) @@ @])
    ELSE CollectFromThread(thread_messages, k + 1,
             [locals EXCEPT !.bot_ids = @ \cup {locals.bot_id[1]}])

\* The second loop, over threads.values() from the t-th thread on
RECURSIVE CollectFromThreads(_, _, _)
CollectFromThreads(threads, t, locals) ==
    IF t > Len(threads) THEN Ok(locals)
    ELSE Then(CollectFromThread(threads[t].messages, 1, locals),
              LAMBDA after : CollectFromThreads(threads, t + 1, after))

\* fetch_bot_names_for_messages: the dict it returns and the ids it calls
\* bots.info with, or the exception it raises.  bots is what bots.info
\* answers for each bot id.
fetch_bot_names_for_messages(messages, threads, bots) ==
    Then(CollectFromThreads(threads, 1,
             CollectFromMessages(messages, 1,
                 [bot_id |-> None, bot_names |-> <<>>, bot_ids |-> {}])),
         LAMBDA locals :
             Ok([calls |-> locals.bot_ids \ DOMAIN locals.bot_names,
                 bot_names |->
                     [id \in DOMAIN locals.bot_names
                             \cup {b \in locals.bot_ids : bots[b].ok} |->
                         IF id \in DOMAIN locals.bot_names
                         THEN locals.bot_names[id] ELSE bots[id].name]]))

(***************************************************************************)
(* format_as_markdown (format_as_markdown.py)                              *)
(***************************************************************************)
AttributeError(name) == Raise([type |-> "AttributeError", arg |-> name])

\* str(v) of a value that may be None
Str(opt) == IF opt = None THEN "None" ELSE opt[1]

\* sep.join(strs)
RECURSIVE Join(_, _)
Join(strs, sep) ==
    IF Len(strs) = 0 THEN ""
    ELSE IF Len(strs) = 1 THEN strs[1]
    ELSE strs[1] \o sep \o Join(Tail(strs), sep)

\* c * n
RECURSIVE Repeat(_, _)
Repeat(c, n) == IF n <= 0 THEN "" ELSE c \o Repeat(c, n - 1)

\* The heading of a message, after the "#"s
HeadingText(message) ==
    (IF message.user # None THEN message.user[1].name ELSE "Unknown User")
        \o " (" \o message.ts_display \o ")\n"

\* The attachment, file and reaction lines of a message and the empty line
\* that ends them
MessageLines(message) ==
    LET attachments ==
            [i \in 1..Len(message.attachments) |->
                "* **" \o Str(message.attachments[i].title) \o "** (fallback: "
                    \o message.attachments[i].fallback \o ")\n"]
        files ==
            [i \in 1..Len(message.files) |->
                LET file == message.files[i]
                IN  "* ["
                      \o (IF file.title # None /\ file.title[1] # ""
                          THEN file.title[1] ELSE file.name)
                      \o "](" \o file.url \o ")\n"]
        reactions ==
            [i \in 1..Len(message.reactions) |->
                message.reactions[i].name \o " ("
                    \o IntToStr(message.reactions[i].count) \o ")"]
    IN  Join(attachments, "") \o Join(files, "")
          \o (IF Len(message.reactions) > 0
              THEN "Reactions: " \o Join(reactions, ", ") \o "\n" ELSE "")
          \o "\n"

\* format_replies(replies, level), from the k-th reply on
RECURSIVE format_replies(_, _, _)
format_replies(replies, k, level) ==
    IF k > Len(replies) THEN Ok("")
    ELSE IF "markdown" \notin DOMAIN replies[k] THEN AttributeError("markdown")
    ELSE Then(format_replies(replies[k].replies, 1, level + 1),
              LAMBDA nested :
                  Then(format_replies(replies, k + 1, level),
                       LAMBDA rest :
                           Ok(Repeat("#", level) \o " "
                                \o HeadingText(replies[k])
                                \o replies[k].markdown \o "\n\n"
                                \o MessageLines(replies[k])
                                \o nested \o rest)))

\* The loop of format_as_markdown, from the k-th top-level message on
RECURSIVE FormatTopLevel(_, _)
FormatTopLevel(top_level_messages, k) ==
    IF k > Len(top_level_messages) THEN Ok("")
    ELSE IF "markdown" \notin DOMAIN top_level_messages[k]
        THEN AttributeError("markdown")
    ELSE Then(format_replies(top_level_messages[k].replies, 1, 3),
              LAMBDA nested :
                  Then(FormatTopLevel(top_level_messages, k + 1),
                       LAMBDA rest :
                           Ok("## " \o HeadingText(top_level_messages[k])
                                \o top_level_messages[k].markdown \o "\n\n"
                                \o MessageLines(top_level_messages[k])
                                \o nested \o rest)))

format_as_markdown(history) ==
    Then(FormatTopLevel(history.top_level_messages, 1),
         LAMBDA body : Ok("# " \o history.channel.name \o "\n\n" \o body))

(***************************************************************************)
(* The state of one run of the command line                                *)
(***************************************************************************)
VARIABLES
    argv,       \* the parsed arguments: command, channel_id, max_messages, output
    slack,      \* what the Slack workspace holds: history, threads (and bots)
    pc,         \* where the run is
    names,      \* SlackService's _user_names, _channel_names, _usergroup_names
    chan,       \* the index in argv.channel_id of the channel being exported
    rows,       \* _fetch_pages: the rows collected so far
    served,     \* how many items the source has returned to this _fetch_pages call
    top_level_slack_messages,   \* fetch_and_format_channel_data's local
    threads_by_ts,              \* fetch_threads_by_ts's dict threads, as its items
    thread_i,   \* fetch_threads_by_ts: the index of the message whose thread is fetched
    channel_history,    \* main's local: None until the export has returned
    files,      \* the documents written: [channel_id, path, content], in order
    exc,        \* the exception that ended the run, or None
    conv,       \* the last call of convert_slack_text: text, is_markdown, result
    bot_names,  \* what fetch_bot_names_for_messages returned, or None
    bots_info_calls     \* the bot ids bots.info has been called with

vars == <<argv, slack, pc, names, chan, rows, served, top_level_slack_messages,
          threads_by_ts, thread_i, channel_history, files, exc, conv,
          bot_names, bots_info_calls>>

(***************************************************************************)
(* Bounds and the data the model's Slack workspace is drawn from           *)
(***************************************************************************)
\* The longest channel history
MaxMsgs == 2

\* The most items the source returns in one page
MaxPage == 2

\* The largest --max-messages
MaxCap == 2

\* settings.MAX_MESSAGES_PER_THREAD
MAX_MESSAGES_PER_THREAD == 500

WsUsers == ("U1" :> "Alice" @@ "U2" :> "Bob")

WsChannels == ("C1" :> "general")

WsUsergroups == ("S1" :> "devs")

NoNames == Maps(<<>>, <<>>, <<>>)

MsgParent ==
    [ts |-> "100", thread_ts |-> "100", user |-> "U1",
     text |-> "<@U1> says *hi*"]

MsgParent2 ==
    [ts |-> "400", thread_ts |-> "400", user |-> "U2", text |-> "second"]

MsgPlain ==
    [ts |-> "200", user |-> "U9", text |-> "<@U9> <#C7> <!subteam^S9>"]

MsgBot ==
    [ts |-> "300", thread_ts |-> "100", bot_id |-> "B1",
     text |-> "<!here> *done*", mrkdwn |-> FALSE]

\* A message with the ts of MsgParent that starts no thread
MsgTwin == [ts |-> "100", user |-> "U2", text |-> "twin"]

MsgNoTs == [user |-> "U2", text |-> "no ts"]

MsgNoTsInThread == [thread_ts |-> "100", user |-> "U2", text |-> "no ts"]

ReplyBob == [ts |-> "101", user |-> "U2", text |-> "ok"]

Reply2 == [ts |-> "102", thread_ts |-> "100", user |-> "U9", text |-> ">q"]

Reply400 == [ts |-> "401", thread_ts |-> "400", user |-> "U1", text |-> "re"]

TopMessages ==
    {MsgParent, MsgParent2, MsgPlain, MsgBot, MsgTwin, MsgNoTs,
     MsgNoTsInThread}

\* What conversations.replies may hold for the thread of MsgParent
Threads100 ==
    { <<MsgParent, ReplyBob, Reply2>>, <<MsgParent, ReplyBob>>, <<ReplyBob>>,
      <<MsgParent>>, <<MsgParent, MsgNoTs>> }

Thread400 == <<MsgParent2, Reply400>>

SeqsUpTo(S, n) == UNION {[1..k -> S] : k \in 0..n}

Commands == {"pprint", "markdown"}

ChannelArgs == {<<"C1">>, <<"C9", "C1">>}

(***************************************************************************)
(* SlackService (slack_service.py) and main (cli.py)                       *)
(*                                                                         *)
(* main names its exporter ChannelHistoryExporter, of a module that is not *)
(* among the sources; the exporter here is SlackDataFormatter, whose       *)
(* fetch_and_format_channel_data main calls.  The formatter's converter    *)
(* (MessageToMarkdown.transform_text, not among the sources either) is     *)
(* taken to be convert_slack_text, as section 4.2 of the specification     *)
(* has it.                                                                 *)
(***************************************************************************)
SlackApiError == [type |-> "SlackApiError"]

\* threads[thread_ts] = thread_messages on the dict kept as its items
DictPut(items, thread_ts, messages) ==
    IF \E i \in 1..Len(items) : items[i].thread_ts = thread_ts
    THEN [i \in 1..Len(items) |->
            IF items[i].thread_ts = thread_ts
            THEN [thread_ts |-> thread_ts, messages |-> messages]
            ELSE items[i]]
    ELSE Append(items, [thread_ts |-> thread_ts, messages |-> messages])

\* fetch_threads_by_ts's loop from message i on, up to its next remote call:
\* the index of the next message with thread_ts == ts ("fetch"), the KeyError
\* of a message that has a thread_ts and no ts ("raise"), or the end ("end")
RECURSIVE NextThread(_, _)
NextThread(messages, i) ==
    IF i > Len(messages) THEN [kind |-> "end", i |-> i]
    ELSE IF "thread_ts" \notin DOMAIN messages[i] THEN NextThread(messages, i + 1)
    ELSE IF "ts" \notin DOMAIN messages[i] THEN [kind |-> "raise", i |-> i]
    ELSE IF messages[i].thread_ts = messages[i].ts THEN [kind |-> "fetch", i |-> i]
    ELSE NextThread(messages, i + 1)

\* A loop condition that leaves the row cap out
MorePagesNoCap(max_rows, collected, next_cursor) == next_cursor

\* _fetch_pages's loop condition after a response: another page is requested
MorePages(max_rows, collected, next_cursor) ==
    (max_rows = 0 \/ Len(collected) < max_rows) /\ next_cursor

\* max_thread_messages or settings.MAX_MESSAGES_PER_THREAD
ThreadCap(max_thread_messages) ==
    IF max_thread_messages # 0 THEN max_thread_messages
    ELSE MAX_MESSAGES_PER_THREAD

channel_id == argv.channel_id[chan]

Init ==
    /\ argv \in [command : Commands, channel_id : ChannelArgs,
                 max_messages : 0..MaxCap, output : {"channel_data.txt"}]
    /\ slack \in [history : SeqsUpTo(TopMessages, MaxMsgs),
                  threads : {("100" :> t @@ "400" :> Thread400) : t \in Threads100}]
    /\ pc = "auth_test"
    /\ names = NoNames
    /\ chan = 0
    /\ rows = <<>>
    /\ served = 0
    /\ top_level_slack_messages = <<>>
    /\ threads_by_ts = <<>>
    /\ thread_i = 0
    /\ channel_history = None
    /\ files = <<>>
    /\ exc = None
    /\ conv = None
    /\ bot_names = None
    /\ bots_info_calls = {}

\* SlackService.__init__: the workspace info, then the three name maps, then
\* the author's user info
AuthTest ==
    /\ pc = "auth_test"
    /\ pc' = "users_list"
    /\ UNCHANGED <<bot_names, bots_info_calls, argv, slack, names, chan, rows, served,
                   top_level_slack_messages, threads_by_ts, thread_i,
                   channel_history, files, exc, conv>>

UsersList ==
    /\ pc = "users_list"
    /\ names' = [names EXCEPT !.users = WsUsers]
    /\ pc' = "conversations_list"
    /\ UNCHANGED <<bot_names, bots_info_calls, argv, slack, chan, rows, served, top_level_slack_messages,
                   threads_by_ts, thread_i, channel_history, files, exc, conv>>

\* An initialisation that goes from the channel list to the author's info
\* and leaves the usergroup list out
ConversationsListLast ==
    /\ pc = "conversations_list"
    /\ names' = [names EXCEPT !.channels = WsChannels]
    /\ pc' = "users_info"
    /\ UNCHANGED <<bot_names, bots_info_calls, argv, slack, chan, rows, served, top_level_slack_messages,
                   threads_by_ts, thread_i, channel_history, files, exc, conv>>

ConversationsList ==
    /\ pc = "conversations_list"
    /\ names' = [names EXCEPT !.channels = WsChannels]
    /\ pc' = "usergroups_list"
    /\ UNCHANGED <<bot_names, bots_info_calls, argv, slack, chan, rows, served, top_level_slack_messages,
                   threads_by_ts, thread_i, channel_history, files, exc, conv>>

UsergroupsList ==
    /\ pc = "usergroups_list"
    /\ names' = [names EXCEPT !.usergroups = WsUsergroups]
    /\ pc' = "users_info"
    /\ UNCHANGED <<bot_names, bots_info_calls, argv, slack, chan, rows, served, top_level_slack_messages,
                   threads_by_ts, thread_i, channel_history, files, exc, conv>>

UsersInfo ==
    /\ pc = "users_info"
    /\ pc' = "next_channel"
    /\ UNCHANGED <<bot_names, bots_info_calls, argv, slack, names, chan, rows, served,
                   top_level_slack_messages, threads_by_ts, thread_i,
                   channel_history, files, exc, conv>>

\* A call of SlackService.__init__ raises SlackApiError: main prints the
\* error and exits with status 1.
InitFails ==
    /\ pc \in {"auth_test", "users_list", "conversations_list",
               "usergroups_list", "users_info"}
    /\ pc' = "exit1"
    /\ UNCHANGED <<bot_names, bots_info_calls, argv, slack, names, chan, rows, served,
                   top_level_slack_messages, threads_by_ts, thread_i,
                   channel_history, files, exc, conv>>

\* main's loop over args.channel_id: the next channel's export starts, or
\* main returns.
NextChannel ==
    /\ pc = "next_channel"
    /\ IF chan < Len(argv.channel_id)
       THEN /\ chan' = chan + 1
            /\ pc' = "history"
       ELSE /\ chan' = chan
            /\ pc' = "exit0"
    /\ rows' = <<>>
    /\ served' = 0
    /\ top_level_slack_messages' = <<>>
    /\ threads_by_ts' = <<>>
    /\ thread_i' = 0
    /\ UNCHANGED <<bot_names, bots_info_calls, argv, slack, names, channel_history, files, exc, conv>>

\* The page the source returns next when it has handed out `given` of
\* `items`: k more items, and a next cursor while items remain.
Pages(items, given) ==
    { [items |-> SubSeq(items, given + 1, given + k),
       next_cursor |-> given + k < Len(items)] :
      k \in (IF given < Len(items)
             THEN 1..Min(MaxPage, Len(items) - given) ELSE {0}) }

\* fetch_threads_by_ts goes on to `next`: its next thread's fetch, its
\* KeyError, or its return to fetch_and_format_channel_data.
ThreadsGoOn(next) ==
    /\ thread_i' = next.i
    /\ rows' = <<>>
    /\ served' = 0
    /\ pc' = CASE next.kind = "fetch" -> "replies"
               [] next.kind = "raise" -> "traceback"
               [] OTHER -> "format"
    /\ exc' = IF next.kind = "raise"
              THEN Some([type |-> "KeyError", arg |-> "ts"]) ELSE exc

\* A fetch that puts each further page before the rows it has
FetchHistoryPageNewestFirst ==
    /\ pc = "history"
    /\ \E page \in Pages(slack.history, served) :
         IF MorePages(argv.max_messages, rows \o page.items, page.next_cursor)
         THEN /\ rows' = page.items \o rows
              /\ served' = served + Len(page.items)
              /\ UNCHANGED <<pc, top_level_slack_messages, thread_i, exc>>
         ELSE /\ top_level_slack_messages' = page.items \o rows
              /\ ThreadsGoOn(NextThread(page.items \o rows, 1))
    /\ UNCHANGED <<bot_names, bots_info_calls, argv, slack, names, chan, threads_by_ts, channel_history,
                   files, conv>>

\* fetch_messages_from_channel: one call of conversations.history by
\* _fetch_pages, and after the last one the start of fetch_threads_by_ts
FetchHistoryPage ==
    /\ pc = "history"
    /\ \E page \in Pages(slack.history, served) :
         IF MorePages(argv.max_messages, rows \o page.items, page.next_cursor)
         THEN /\ rows' = rows \o page.items
              /\ served' = served + Len(page.items)
              /\ UNCHANGED <<pc, top_level_slack_messages, thread_i, exc>>
         ELSE /\ top_level_slack_messages' = rows \o page.items
              /\ ThreadsGoOn(NextThread(rows \o page.items, 1))
    /\ UNCHANGED <<bot_names, bots_info_calls, argv, slack, names, chan, threads_by_ts, channel_history,
                   files, conv>>

\* _fetch_messages_from_thread: one call of conversations.replies by
\* _fetch_pages, and after the last one threads[thread_ts] = thread_messages
\* and the loop of fetch_threads_by_ts goes on
FetchRepliesPage ==
    /\ pc = "replies"
    /\ LET thread_ts == top_level_slack_messages[thread_i].thread_ts
       IN  \E page \in Pages(slack.threads[thread_ts], served) :
             IF MorePages(ThreadCap(argv.max_messages), rows \o page.items,
                          page.next_cursor)
             THEN /\ rows' = rows \o page.items
                  /\ served' = served + Len(page.items)
                  /\ UNCHANGED <<pc, threads_by_ts, thread_i, exc>>
             ELSE /\ threads_by_ts' = DictPut(threads_by_ts, thread_ts,
                                              rows \o page.items)
                  /\ ThreadsGoOn(NextThread(top_level_slack_messages,
                                            thread_i + 1))
    /\ UNCHANGED <<bot_names, bots_info_calls, argv, slack, names, chan, top_level_slack_messages,
                   channel_history, files, conv>>

\* A failing page fetch that is logged and not raised again: the export goes
\* on with the rows it has.
FetchFailsLogged ==
    /\ pc \in {"history", "replies"}
    /\ pc' = "format"
    /\ exc' = Some(SlackApiError)
    /\ top_level_slack_messages' =
           IF pc = "history" THEN rows ELSE top_level_slack_messages
    /\ UNCHANGED <<bot_names, bots_info_calls, argv, slack, names, chan, rows, served, threads_by_ts,
                   thread_i, channel_history, files, conv>>

\* A page fetch of the export raises SlackApiError: fetch_and_format_channel_data
\* logs it and raises it again, and main does not catch it.
FetchFails ==
    /\ pc \in {"history", "replies"}
    /\ pc' = "traceback"
    /\ exc' = Some(SlackApiError)
    /\ UNCHANGED <<bot_names, bots_info_calls, argv, slack, names, chan, rows, served,
                   top_level_slack_messages, threads_by_ts, thread_i,
                   channel_history, files, conv>>

\* fetch_and_format_channel_data ends with r: main goes on with the data it
\* returned, or the exception it raised ends the run.
ExportEnds(r) ==
    IF r.ok
    THEN /\ channel_history' = Some(r.val)
         /\ pc' = "output"
         /\ exc' = exc
    ELSE /\ channel_history' = channel_history
         /\ pc' = "traceback"
         /\ exc' = Some(r.exc)

\* The rest of fetch_and_format_channel_data: it returns the export data to
\* main, or raises.
FormatChannel ==
    /\ pc = "format"
    /\ ExportEnds(FormatChannelData(channel_id, top_level_slack_messages,
                                    threads_by_ts, names))
    /\ UNCHANGED <<bot_names, bots_info_calls, argv, slack, names, chan, rows, served,
                   top_level_slack_messages, threads_by_ts, thread_i, files,
                   conv>>

\* The document main writes for the channel, or the exception of its
\* rendering: pretty_print's pformat of the data, or format_as_markdown's text
Document(command, history) ==
    IF command = "pprint" THEN Ok([pformat |-> history])
    ELSE format_as_markdown(history)

\* main's output of one channel ends with r: the document is written to
\* args.output, or the exception ends the run.
OutputEnds(r) ==
    IF r.ok
    THEN /\ files' = Append(files, [channel_id |-> channel_id,
                                    path |-> argv.output, content |-> r.val])
         /\ pc' = "next_channel"
         /\ exc' = exc
    ELSE /\ files' = files
         /\ pc' = "traceback"
         /\ exc' = Some(r.exc)

\* main's output of one channel: pretty_print, or format_as_markdown and the
\* write of its result
WriteOutput ==
    /\ pc = "output"
    /\ OutputEnds(Document(argv.command, channel_history[1]))
    /\ channel_history' = None
    /\ UNCHANGED <<bot_names, bots_info_calls, argv, slack, names, chan, rows, served,
                   top_level_slack_messages, threads_by_ts, thread_i, conv>>

Next ==
    \/ AuthTest
    \/ UsersList
    \/ ConversationsList
    \/ UsergroupsList
    \/ UsersInfo
    \/ InitFails
    \/ NextChannel
    \/ FetchHistoryPage
    \/ FetchRepliesPage
    \/ FetchFails
    \/ FormatChannel
    \/ WriteOutput

Spec == Init /\ [][Next]_vars

(***************************************************************************)
(* The formatter alone: fetch_and_format_channel_data on what a            *)
(* slack_service handed to its constructor returns from                    *)
(* fetch_messages_from_channel and fetch_threads_by_ts                     *)
(***************************************************************************)
Thread999 ==
    << [ts |-> "999", thread_ts |-> "999", user |-> "U1", text |-> "gone"],
       [ts |-> "1000", thread_ts |-> "999", user |-> "U2", text |-> "lost"] >>

ThreadItems ==
    {[thread_ts |-> "100", messages |-> t] : t \in Threads100}
        \cup {[thread_ts |-> "400", messages |-> Thread400],
              [thread_ts |-> "999", messages |-> Thread999]}

\* The most threads the injected slack_service returns
MaxThreads == 2

\* Messages with attachments, whose markup flags differ from their message's
MsgMarkupOff ==
    [ts |-> "500", user |-> "U1", text |-> "*m*", mrkdwn |-> FALSE,
     attachments |-> << [text |-> "*a*", mrkdwn_in |-> <<"text">>],
                        [text |-> "*b*"] >>]

MsgMarkupOn ==
    [ts |-> "600", user |-> "U1", text |-> "*m*", mrkdwn |-> TRUE,
     attachments |-> << [text |-> "*c*", mrkdwn_in |-> <<"pretext">>],
                        [text |-> "*a*",
                         mrkdwn_in |-> <<"pretext", "text">>] >>]

MsgMarkupAbsent ==
    [ts |-> "700", user |-> "U2", text |-> "*m*",
     attachments |-> << [text |-> "*b*"], [mrkdwn_in |-> <<"text">>] >>]

FormatterMessages ==
    TopMessages \cup {MsgMarkupOff, MsgMarkupOn, MsgMarkupAbsent}

ThreadDicts ==
    {d \in SeqsUpTo(ThreadItems, MaxThreads) :
        \A i, j \in 1..Len(d) : d[i].thread_ts = d[j].thread_ts => i = j}

InitFormatter ==
    /\ argv \in [command : {"pprint"}, channel_id : {<<"C1">>},
                 max_messages : {0}, output : {"channel_data.txt"}]
    /\ slack = [history |-> <<>>, threads |-> <<>>]
    /\ pc = "format"
    /\ names = Maps(WsUsers, WsChannels, WsUsergroups)
    /\ chan = 1
    /\ rows = <<>>
    /\ served = 0
    /\ top_level_slack_messages \in SeqsUpTo(FormatterMessages, MaxMsgs)
    /\ threads_by_ts \in ThreadDicts
    /\ thread_i = 0
    /\ channel_history = None
    /\ files = <<>>
    /\ exc = None
    /\ conv = None
    /\ bot_names = None
    /\ bots_info_calls = {}

SpecFormatter == InitFormatter /\ [][FormatChannel]_vars

(***************************************************************************)
(* The converter alone: calls of convert_slack_text                        *)
(***************************************************************************)
\* The most pieces a converted text is made of
MaxPieces == 2

Pieces ==
    { "<@U1>", "<@W1>", "<@U9>", "<#C1>", "<#C7>", "<!subteam^S1>",
      "<!subteam^S9>", "<!subteam^>", "<!here>", "<!channel>", "<!everyone>",
      "<!date^12>", "<!date^>", "<!date>", "<!x>", "<https://x.test|Click>",
      "<https://x.test>", "<https://x.test/a*b*c|*Click*>", "<>", " hello", "*hi*", "_it_", "~c~", ">q", "> q",
      "\n", "<", ">" }

RECURSIVE Concat(_)
Concat(strs) == IF Len(strs) = 0 THEN "" ELSE Head(strs) \o Concat(Tail(strs))

Texts == {Concat(ps) : ps \in SeqsUpTo(Pieces, MaxPieces)}

\* The lookup maps SlackService may hold
NameMaps ==
    { Maps(WsUsers @@ ("W1" :> "Wu"), WsChannels, WsUsergroups),
      Maps("U1" :> "*Al*", "C1" :> "dev_ops_", "S1" :> "a~b~"),
      NoNames }

\* Maps in which a lookup stores the fallback of the user id U9
NamesAfterSetDefault(text, is_markdown, maps) ==
    [maps EXCEPT !.users = @ @@ ("U9" :> "user_U9")]

\* The maps after a call of convert_slack_text: it reads them with dict.get
\* and writes none.
NamesAfterConvert(text, is_markdown, maps) == maps

InitConverter ==
    /\ argv = [command |-> "markdown", channel_id |-> <<"C1">>,
               max_messages |-> 0, output |-> "channel_data.txt"]
    /\ slack = [history |-> <<>>, threads |-> <<>>]
    /\ pc = "convert"
    /\ names \in NameMaps
    /\ chan = 0
    /\ rows = <<>>
    /\ served = 0
    /\ top_level_slack_messages = <<>>
    /\ threads_by_ts = <<>>
    /\ thread_i = 0
    /\ channel_history = None
    /\ files = <<>>
    /\ exc = None
    /\ conv = None
    /\ bot_names = None
    /\ bots_info_calls = {}

\* A call of convert_slack_text ends with r: the caller has the text it
\* returned, or the exception it raised ends the run.
ConvertEnds(text, is_markdown, r) ==
    IF r.ok
    THEN /\ conv' = Some([text |-> text, is_markdown |-> is_markdown,
                          result |-> r.val])
         /\ pc' = pc
         /\ exc' = exc
    ELSE /\ conv' = conv
         /\ pc' = "traceback"
         /\ exc' = Some(r.exc)

ConvertText ==
    /\ pc = "convert"
    /\ conv = None
    /\ \E text \in Texts, is_markdown \in BOOLEAN :
         /\ ConvertEnds(text, is_markdown,
                        convert_slack_text(text, is_markdown, names))
         /\ names' = NamesAfterConvert(text, is_markdown, names)
    /\ UNCHANGED <<bot_names, bots_info_calls, argv, slack, chan, rows, served,
                   top_level_slack_messages, threads_by_ts, thread_i,
                   channel_history, files>>

\* The caller takes the converted text; the next call may follow.
TakeText ==
    /\ pc = "convert"
    /\ conv # None
    /\ conv' = None
    /\ UNCHANGED <<bot_names, bots_info_calls, argv, slack, pc, names, chan, rows, served,
                   top_level_slack_messages, threads_by_ts, thread_i,
                   channel_history, files, exc>>

NextConverter == ConvertText \/ TakeText

SpecConverter == InitConverter /\ [][NextConverter]_vars

(***************************************************************************)
(* The renderer alone: main's output of the export data a caller holds     *)
(***************************************************************************)
\* The deepest nesting of replies below a top-level message
MaxDepth == 2

\* The most replies of one message
MaxReplies == 1

\* The most top-level messages of the rendered data
MaxTop == 2

MsgRich ==
    [ts |-> "500", user |-> "U1", text |-> "rich",
     reactions |-> << [name |-> "tada", count |-> 3, users |-> <<"U1">>],
                      [name |-> "eyes", count |-> 1, users |-> <<"U2">>] >>,
     files |-> << [id |-> "F1", url_private |-> "https://f.test/1",
                   name |-> "f.txt", filetype |-> "text", title |-> "Notes"],
                  [id |-> "F2", url_private |-> "https://f.test/2",
                   name |-> "g.txt", filetype |-> "text"] >>,
     attachments |-> << [fallback |-> "fb", title |-> "T"] >>]

\* Messages as _format_message makes them, without replies
Leaves ==
    {_format_message(m, Maps(WsUsers, WsChannels, WsUsergroups)).val :
        m \in {MsgRich, ReplyBob}}

\* The messages whose replies nest at most d deep
RECURSIVE MessageTrees(_)
MessageTrees(d) ==
    IF d = 0 THEN Leaves
    ELSE {[m EXCEPT !.replies = rs] :
            m \in Leaves, rs \in SeqsUpTo(MessageTrees(d - 1), MaxReplies)}

InitRenderer ==
    /\ argv = [command |-> "markdown", channel_id |-> <<"C1">>,
               max_messages |-> 0, output |-> "channel_data.txt"]
    /\ slack = [history |-> <<>>, threads |-> <<>>]
    /\ pc = "output"
    /\ names = Maps(WsUsers, WsChannels, WsUsergroups)
    /\ chan = 1
    /\ rows = <<>>
    /\ served = 0
    /\ top_level_slack_messages = <<>>
    /\ threads_by_ts = <<>>
    /\ thread_i = 0
    /\ channel_history \in
          {Some(ChannelExportData(Channel("C1", "general"), top)) :
              top \in SeqsUpTo(MessageTrees(MaxDepth), MaxTop)}
    /\ files = <<>>
    /\ exc = None
    /\ conv = None
    /\ bot_names = None
    /\ bots_info_calls = {}

SpecRenderer == InitRenderer /\ [][WriteOutput]_vars

(***************************************************************************)
(* fetch_bot_names_for_messages on the messages and threads of a channel   *)
(***************************************************************************)
\* The most top-level messages and messages of a thread, and the most
\* threads, of a call
MaxBotMsgs == 2

MaxBotThreads == 1

BotMessages ==
    { [ts |-> "1", bot_id |-> "B1", username |-> "one", text |-> "a"],
      [ts |-> "2", bot_id |-> "B1", text |-> "b"],
      [ts |-> "3", bot_id |-> "B2", username |-> "two", text |-> "c"],
      [ts |-> "4", bot_id |-> "B2", text |-> "d"],
      [ts |-> "5", bot_id |-> "B2", username |-> "", text |-> "e"],
      [ts |-> "6", user |-> "U1", text |-> "f"] }

\* What bots.info may answer
BotsInfo ==
    { ("B1" :> [ok |-> ok1, name |-> "bot one"])
          @@ ("B2" :> [ok |-> ok2, name |-> "bot two"]) :
      ok1, ok2 \in BOOLEAN }

InitBots ==
    /\ argv \in [command : {"pprint"}, channel_id : {<<"C1">>},
                 max_messages : {0}, output : {"channel_data.txt"}]
    /\ slack \in [history : {<<>>}, threads : {<<>>}, bots : BotsInfo]
    /\ pc = "bot_names"
    /\ names = Maps(WsUsers, WsChannels, WsUsergroups)
    /\ chan = 1
    /\ rows = <<>>
    /\ served = 0
    /\ top_level_slack_messages \in SeqsUpTo(BotMessages, MaxBotMsgs)
    /\ threads_by_ts \in
           SeqsUpTo({[thread_ts |-> "1", messages |-> m] :
                         m \in SeqsUpTo(BotMessages, MaxBotMsgs)},
                    MaxBotThreads)
    /\ thread_i = 0
    /\ channel_history = None
    /\ files = <<>>
    /\ exc = None
    /\ conv = None
    /\ bot_names = None
    /\ bots_info_calls = {}

\* fetch_bot_names_for_messages ends with r
BotNamesEnd(r) ==
    IF r.ok
    THEN /\ bot_names' = Some(r.val.bot_names)
         /\ bots_info_calls' = r.val.calls
         /\ pc' = "bot_names_done"
         /\ exc' = exc
    ELSE /\ pc' = "traceback"
         /\ exc' = Some(r.exc)
         /\ UNCHANGED <<bot_names, bots_info_calls>>

FetchBotNames ==
    /\ pc = "bot_names"
    /\ BotNamesEnd(fetch_bot_names_for_messages(
                       top_level_slack_messages, threads_by_ts, slack.bots))
    /\ UNCHANGED <<argv, slack, names, chan, rows, served,
                   top_level_slack_messages, threads_by_ts, thread_i,
                   channel_history, files, conv>>

SpecBots == InitBots /\ [][FetchBotNames]_vars

(***************************************************************************)
(* Properties of the export (Spec)                                         *)
(***************************************************************************)
\* The top-level messages of the export data main holds
Top == channel_history[1].top_level_messages

\* The messages of the output tree: the top-level messages and their replies
Nodes ==
    {Top[i] : i \in 1..Len(Top)}
        \cup UNION {{Top[i].replies[k] : k \in 1..Len(Top[i].replies)} :
                        i \in 1..Len(Top)}

DistinctTs(msgs) ==
    \A i, j \in 1..Len(msgs) : msgs[i].ts = msgs[j].ts => i = j

IsPrefix(a, b) == Len(a) <= Len(b) /\ a = SubSeq(b, 1, Len(a))

\* The messages the formatter makes of raw messages
Formatted(msgs) ==
    [k \in 1..Len(msgs) |-> _format_message(msgs[k], names).val]

\* C1: after fetch_and_format_channel_data has returned, when the top-level
\* messages have pairwise distinct ts, every top-level message P with
\* thread_ts == ts has as replies exactly the entries of the thread fetched for
\* P.ts (a prefix of what the source holds for it) whose ts differs from P.ts,
\* each once and in the source's order; every other top-level message has no
\* replies.
C1_RepliesAreTheThread ==
    (pc = "output" /\ DistinctTs(top_level_slack_messages)) =>
        \A i \in 1..Len(Top) :
            IF Top[i].thread_ts = Some(Top[i].ts)
            THEN \E t \in 1..Len(threads_by_ts) :
                    /\ threads_by_ts[t].thread_ts = Top[i].ts
                    /\ IsPrefix(threads_by_ts[t].messages,
                                slack.threads[Top[i].ts])
                    /\ Top[i].replies =
                          Formatted(SelectSeq(threads_by_ts[t].messages,
                                              LAMBDA r : r.ts # Top[i].ts))
            ELSE Top[i].replies = <<>>

\* An export has returned a parent with its two replies, fetched with its own
\* entry, beside a message that is no parent.
C1_Witness ==
    /\ pc = "output"
    /\ DistinctTs(top_level_slack_messages)
    /\ \E i, j \in 1..Len(Top) :
         /\ Top[i].thread_ts = Some(Top[i].ts)
         /\ Len(Top[i].replies) = 2
         /\ \E t \in 1..Len(threads_by_ts) :
              /\ threads_by_ts[t].thread_ts = Top[i].ts
              /\ Len(threads_by_ts[t].messages) = 3
         /\ Top[j].thread_ts # Some(Top[j].ts)
         /\ Top[j].replies = <<>>

\* C2: for every --max-messages >= 1 and every paging of the source, the
\* exported top_level_messages holds at most max_messages messages, exactly
\* max_messages when the source holds that many, taken from the start of
\* the source's sequence.
C2_AtMostMaxMessages ==
    (pc = "output" /\ argv.max_messages >= 1) =>
        /\ Len(Top) <= argv.max_messages
        /\ Len(slack.history) >= argv.max_messages
              => Len(Top) = argv.max_messages
        /\ Len(Top) = Len(top_level_slack_messages)
        /\ IsPrefix(top_level_slack_messages, slack.history)

\* C3: when a page fetch of an export fails, the SlackApiError ends the run
\* as it was raised: main holds no export data, no document has been written
\* for the channel being exported, and nothing more happens.
C3_FetchFailureAborts ==
    exc = Some(SlackApiError) =>
        /\ pc = "traceback"
        /\ channel_history = None
        /\ Len(files) = chan - 1
        /\ \A i \in 1..Len(files) : files[i].channel_id = argv.channel_id[i]
        /\ ~ENABLED Next

\* The second channel's export failed on a page fetch after a thread of it
\* had been fetched; the first channel's document had been written.
C3_Witness ==
    /\ exc = Some(SlackApiError)
    /\ chan = 2
    /\ Len(files) = 1
    /\ top_level_slack_messages # <<>>
    /\ threads_by_ts # <<>>

\* C4: a raw message without ts is skipped: no export is ended by the
\* KeyError of a missing ts, and the export returns the well-formed messages.
C4_MalformedSkipped ==
    /\ pc = "traceback" => exc # Some([type |-> "KeyError", arg |-> "ts"])
    /\ pc = "output" =>
          Len(Top) = Len(SelectSeq(top_level_slack_messages,
                                   LAMBDA m : "ts" \in DOMAIN m))

\* The scenario of C6: channel general, Alice's message and Bob's reply
C6_Scenario ==
    /\ channel_id = "C1"
    /\ top_level_slack_messages = <<MsgParent>>
    /\ threads_by_ts =
          <<[thread_ts |-> "100", messages |-> <<MsgParent, ReplyBob>>]>>

\* C6: rendering the export data an export returned with format_as_markdown
\* succeeds; in the scenario it yields the level-1 heading general, Alice's
\* level-2 heading with the body "@Alice says **hi**" and Bob's level-3
\* heading with the body "ok".
C6_EndToEndRenders ==
    (pc = "output" /\ argv.command = "markdown") =>
        /\ format_as_markdown(channel_history[1]).ok
        /\ C6_Scenario =>
              format_as_markdown(channel_history[1]).val =
                  "# general\n\n## Alice (" \o Top[1].ts_display
                      \o ")\n@Alice says **hi**\n\n\n### Bob ("
                      \o Top[1].replies[1].ts_display \o ")\nok\n\n\n"

\* C10: an id missing from its lookup renders as user_<id>, channel_<id> or
\* usergroup_<id> in an inline mention and as channel_<id> in the exported
\* channel's name; the author of a message, its user or else its bot_id,
\* renders as unknown_user_<id>; none is empty and none ends the export.
C10_FallbackNames ==
    pc = "output" =>
        /\ channel_history[1].channel.name # ""
        /\ channel_id \notin DOMAIN names.channels
              => channel_history[1].channel.name = "channel_" \o channel_id
        /\ \A n \in Nodes :
              n.user # None =>
                  /\ n.user[1].name # ""
                  /\ n.user[1].id \notin DOMAIN names.users
                        => n.user[1].name = "unknown_user_" \o n.user[1].id
        /\ convert_slack_text("<@U9> <#C7> <!subteam^S9>", TRUE, names)
              = Ok("@user_U9 #channel_C7 @usergroup_S9")

\* The export of channel C9 has returned the message of the unknown user U9,
\* with its three mentions of unknown ids, and the message of the bot B1.
C10_Witness ==
    /\ pc = "output"
    /\ channel_id = "C9"
    /\ top_level_slack_messages = <<MsgPlain, MsgBot>>
    /\ Top[1].user = Some(User("U9", "unknown_user_U9"))
    /\ Top[2].user = Some(User("B1", "unknown_user_B1"))

\* C10 as stated: every unresolved id renders as <kind>_<id>, the author of
\* a message as user_<id> or, taken from bot_id, as bot_<id>.
C10_KindFallbackEverywhere ==
    pc = "output" =>
        /\ channel_id \notin DOMAIN names.channels
              => channel_history[1].channel.name = "channel_" \o channel_id
        /\ \A n \in Nodes :
              (n.user # None /\ n.user[1].id \notin DOMAIN names.users) =>
                  n.user[1].name =
                      (IF n.is_bot THEN "bot_" ELSE "user_") \o n.user[1].id
        /\ convert_slack_text("<@U9> <#C7> <!subteam^S9>", TRUE, names)
              = Ok("@user_U9 #channel_C7 @usergroup_S9")

\* A step of the run keeps the order of the remote calls: the state pc names
\* the call that the next step makes.
CallsInOrder ==
    /\ pc' = "users_list" => pc = "auth_test"
    /\ pc' = "conversations_list" => pc = "users_list"
    /\ pc' = "usergroups_list" => pc = "conversations_list"
    /\ pc' = "users_info" => pc = "usergroups_list"
    /\ pc' = "history" =>
          /\ pc \in {"next_channel", "history"}
          /\ pc = "history" => chan' = chan
          /\ names' = Maps(WsUsers, WsChannels, WsUsergroups)
    /\ pc' = "replies" =>
          /\ pc \in {"history", "replies"}
          /\ chan' = chan
          /\ pc = "history" => thread_i' >= 1 /\ threads_by_ts' = <<>>
          /\ pc = "replies" =>
                \/ thread_i' = thread_i /\ threads_by_ts' = threads_by_ts
                \/ /\ thread_i' > thread_i
                   /\ \E t \in 1..Len(threads_by_ts') :
                        threads_by_ts'[t].thread_ts
                            = top_level_slack_messages[thread_i].ts
          /\ top_level_slack_messages'[thread_i'].thread_ts
                = top_level_slack_messages'[thread_i'].ts
          /\ \A i \in 1..(thread_i' - 1) :
                "thread_ts" \in DOMAIN top_level_slack_messages'[i] =>
                    \/ top_level_slack_messages'[i].thread_ts
                          # top_level_slack_messages'[i].ts
                    \/ \E t \in 1..Len(threads_by_ts') :
                          threads_by_ts'[t].thread_ts
                              = top_level_slack_messages'[i].ts

\* C15: in every run the workspace-info call precedes the user-list fetch,
\* that the channel-list fetch, that the usergroup-list fetch, and that every
\* page of top-level messages; a channel's pages of top-level messages all
\* precede its first page of replies, and its threads are fetched one after
\* another in the order of their parents.
C15_RemoteCallOrder == [][CallsInOrder]_vars

\* The second thread of the second channel is being fetched, the first one
\* having been stored.
C15_Witness ==
    /\ pc = "replies"
    /\ chan = 2
    /\ thread_i = 2
    /\ Len(threads_by_ts) = 1
    /\ rows # <<>>

\* What the source holds for the fetch under way, and the fetch's row cap
FetchSource ==
    IF pc = "history" THEN slack.history
    ELSE slack.threads[top_level_slack_messages[thread_i].thread_ts]

FetchCap ==
    IF pc = "history" THEN argv.max_messages
    ELSE ThreadCap(argv.max_messages)

\* The rows with which the fetch under way ends in this step
FetchedRows ==
    IF pc = "history" THEN top_level_slack_messages'
    ELSE LET t == CHOOSE t \in 1..Len(threads_by_ts') :
                      threads_by_ts'[t].thread_ts
                          = top_level_slack_messages[thread_i].thread_ts
         IN  threads_by_ts'[t].messages

BelowCap(n) == FetchCap = 0 \/ n < FetchCap

\* A response of the fetch under way has come: the loop goes on to request
\* the page at the cursor of that response, or the fetch ends.
PageStep ==
    (pc \in {"history", "replies"} /\ exc' # Some(SlackApiError)) =>
        IF served' > served
        THEN /\ pc' = pc /\ thread_i' = thread_i
             /\ rows' = SubSeq(FetchSource, 1, served')
             /\ served' < Len(FetchSource)
             /\ BelowCap(Len(rows'))
        ELSE /\ served' = 0
             /\ IsPrefix(FetchedRows, FetchSource)
             /\ IsPrefix(rows, FetchedRows)
             /\ ~(Len(FetchedRows) < Len(FetchSource)
                    /\ BelowCap(Len(FetchedRows)))

\* C16: in one paginated fetch a further page is requested after a page if
\* and only if the response carried a next cursor and the rows are fewer than
\* the cap, or there is no cap; the request continues at that cursor; and the
\* loop ends once a response comes without cursor or the cap is reached: each
\* further page moves the cursor forward in the source, which bounds the pages.
C16_PaginationLoop == [][PageStep]_vars

\* A fetch with a cap of two rows has one row and has requested its second
\* page.
C16_Witness ==
    /\ pc = "history"
    /\ argv.max_messages = 2
    /\ served = 1
    /\ Len(rows) = 1
    /\ Len(slack.history) = 2

\* C17: each thread's fetch is capped by the thread-specific maximum,
\* MAX_MESSAGES_PER_THREAD, whatever --max-messages is: a thread is cut short
\* only at MAX_MESSAGES_PER_THREAD rows or more.
C17_ThreadCapIsThreadSpecific ==
    \A t \in 1..Len(threads_by_ts) :
        LET source   == slack.threads[threads_by_ts[t].thread_ts]
            messages == threads_by_ts[t].messages
        IN  /\ IsPrefix(messages, source)
            /\ Len(messages) < Len(source) =>
                   Len(messages) >= MAX_MESSAGES_PER_THREAD

\* C21: in the export data main holds, whatever the raw messages were (two
\* top-level messages of one ts among them), a message has replies only if
\* its thread_ts is its own ts, and no reply has replies: the tree has two
\* levels at most.
C21_OnlyParentsHaveReplies ==
    (pc = "output" /\ channel_history # None) =>
        \A i \in 1..Len(Top) :
            /\ Top[i].replies # <<>> => Top[i].thread_ts = Some(Top[i].ts)
            /\ \A k \in 1..Len(Top[i].replies) :
                  Top[i].replies[k].replies = <<>>

\* C22: top_level_messages is the fetched top-level pages one after the
\* other in the order of their fetch, a Message for each raw message at its
\* place: none is dropped, doubled or moved, and nothing is sorted by ts.
C22_TopLevelInFetchOrder ==
    /\ pc = "history" => rows = SubSeq(slack.history, 1, served)
    /\ (pc = "output" /\ channel_history # None) =>
           /\ IsPrefix(top_level_slack_messages, slack.history)
           /\ Len(Top) = Len(top_level_slack_messages)
           /\ \A i \in 1..Len(Top) :
                 Ok([Top[i] EXCEPT !.replies = <<>>])
                     = _format_message(top_level_slack_messages[i], names)

\* Two messages, the later one first in the source, have been exported in
\* the source's order.
C22_Witness ==
    /\ pc = "output"
    /\ channel_history # None
    /\ slack.history = <<MsgParent2, MsgPlain>>
    /\ Len(Top) = 2
    /\ Top[1].ts = "400"
    /\ Top[2].ts = "200"

(***************************************************************************)
(* Properties of fetch_bot_names_for_messages (SpecBots)                   *)
(***************************************************************************)
\* The messages of the call that carry a bot id: the top-level ones and
\* those of the threads
BotMsgs ==
    {m \in {top_level_slack_messages[i] :
                i \in 1..Len(top_level_slack_messages)}
            \cup UNION {{threads_by_ts[t].messages[k] :
                             k \in 1..Len(threads_by_ts[t].messages)} :
                        t \in 1..Len(threads_by_ts)} :
        "bot_id" \in DOMAIN m}

\* C24: fetch_bot_names_for_messages ends without error, also when bots
\* appear in thread messages only; every bot id of its result has the
\* username of a message with that bot id or the name bots.info returned for
\* it; and bots.info is called for exactly the bot ids of the messages that
\* no message carries with a username.
C24_BotNames ==
    pc # "bot_names" =>
        /\ pc = "bot_names_done"
        /\ exc = None
        /\ bot_names # None
        /\ \A id \in DOMAIN bot_names[1] :
              \/ \E m \in BotMsgs :
                    /\ m.bot_id = id
                    /\ HasUsername(m)
                    /\ m.username = bot_names[1][id]
              \/ /\ id \in bots_info_calls
                 /\ slack.bots[id].ok
                 /\ bot_names[1][id] = slack.bots[id].name
        /\ bots_info_calls =
               {m.bot_id : m \in BotMsgs}
                   \ {m.bot_id : m \in {n \in BotMsgs : HasUsername(n)}}

(***************************************************************************)
(* Properties of the merge of threads (SpecFormatter)                      *)
(***************************************************************************)
\* The thread's thread_ts is the ts of no top-level message
Orphan(thread) ==
    \A i \in 1..Len(Top) : Top[i].ts # thread.thread_ts

\* C5: a fetched thread whose thread_ts is the ts of no top-level message
\* contributes no node to the output tree: none of its entries is a reply of
\* a message or a top-level message.
C5_OrphanThreadsDropped ==
    pc = "output" =>
        /\ Len(Top) = Len(top_level_slack_messages)
        /\ \A t \in 1..Len(threads_by_ts) :
              Orphan(threads_by_ts[t]) =>
                  \A m \in 1..Len(threads_by_ts[t].messages) :
                      "ts" \in DOMAIN threads_by_ts[t].messages[m] =>
                          \A n \in Nodes :
                              n.ts # threads_by_ts[t].messages[m].ts

\* The formatter has returned a tree with a reply in it, having been given a
\* thread with a reply and no parent.
C5_Witness ==
    /\ pc = "output"
    /\ \E i \in 1..Len(Top) : Top[i].replies # <<>>
    /\ \E t \in 1..Len(threads_by_ts) :
         /\ Orphan(threads_by_ts[t])
         /\ Len(threads_by_ts[t].messages) >= 2

\* The text stored for a raw text under a markup flag
StoredText(raw_text, flag) ==
    IF flag THEN convert_slack_text(raw_text, TRUE, names) ELSE Ok(raw_text)

\* "text" is listed in the attachment's mrkdwn_in
TextListed(attachment) ==
    /\ "mrkdwn_in" \in DOMAIN attachment
    /\ \E i \in 1..Len(attachment.mrkdwn_in) : attachment.mrkdwn_in[i] = "text"

\* C23: each text is converted under its own markup flag: a message's text
\* as markup iff its mrkdwn is true or absent, an attachment's text as markup
\* iff "text" is listed in its mrkdwn_in; with the flag off the stored text
\* is the raw text; a message's flag does not decide its attachments'
\* conversion, nor theirs its own.
C23_OwnMarkupFlag ==
    (pc = "output" /\ channel_history # None) =>
        \A i \in 1..Len(Top) :
            LET msg == top_level_slack_messages[i]
                raw == IF "attachments" \in DOMAIN msg
                       THEN msg.attachments ELSE <<>>
            IN  /\ Ok(Top[i].text)
                     = StoredText(msg.text,
                                  "mrkdwn" \notin DOMAIN msg \/ msg.mrkdwn)
                /\ Len(Top[i].attachments) = Len(raw)
                /\ \A a \in 1..Len(raw) :
                      Ok(Top[i].attachments[a].text)
                          = StoredText(IF "text" \in DOMAIN raw[a]
                                       THEN raw[a].text ELSE "",
                                       TextListed(raw[a]))

\* A message with markup off and an attachment with markup on, and a message
\* with markup on and an attachment with markup off, have been formatted.
C23_Witness ==
    /\ pc = "output"
    /\ channel_history # None
    /\ top_level_slack_messages = <<MsgMarkupOff, MsgMarkupOn>>
    /\ Top[1].text = "*m*"
    /\ Top[1].attachments[1].text = "**a**"
    /\ Top[1].attachments[2].text = "*b*"
    /\ Top[2].text = "**m**"
    /\ Top[2].attachments[1].text = "*c*"

(***************************************************************************)
(* Properties of the converter (SpecConverter)                             *)
(***************************************************************************)
\* C7: convert_slack_text(text, is_markdown=False) returns text unchanged,
\* whatever bracket tokens, asterisks, underscores, backticks or leading ">"
\* it holds.
C7_PlainTextUnchanged ==
    (conv # None /\ ~conv[1].is_markdown) => conv[1].result = conv[1].text

\* A text of a mention and bold markup has been converted as plain text.
C7_Witness ==
    /\ conv # None
    /\ ~conv[1].is_markdown
    /\ conv[1].text = "<@U1>*hi*"
    /\ conv[1].result = "<@U1>*hi*"

\* C8: with is_markdown=True the token of a user, channel or usergroup whose
\* id is in its lookup map is replaced by "@" or "#" and the entity's name,
\* and markup-free text after it is left as it is.
C8_KnownMentionsResolved ==
    (conv # None /\ conv[1].is_markdown) =>
        \A rest \in {"", " hello"} :
            /\ \A id \in DOMAIN names.users :
                  conv[1].text = "<@" \o id \o ">" \o rest
                      => conv[1].result = "@" \o names.users[id] \o rest
            /\ \A id \in DOMAIN names.channels :
                  conv[1].text = "<#" \o id \o ">" \o rest
                      => conv[1].result = "#" \o names.channels[id] \o rest
            /\ \A id \in DOMAIN names.usergroups :
                  conv[1].text = "<!subteam^" \o id \o ">" \o rest
                      => conv[1].result = "@" \o names.usergroups[id] \o rest

\* The user ids of the converted texts
UserIds == {"U1", "W1", "U9"}

C9_FallbackOfUnmapped ==
    \A id \in UserIds :
        (/\ conv # None
         /\ conv[1].is_markdown
         /\ conv[1].text = "<@" \o id \o ">"
         /\ id \notin DOMAIN names.users) => conv[1].result = "@user_" \o id

\* C9: for a user id that is not in the user map, converting "<@id>" yields
\* "@user_<id>" on every call, and no step of the converter changes the
\* user, channel and usergroup maps.
C9_UnmappedUserFallback ==
    [] C9_FallbackOfUnmapped /\ [][names' = names]_vars

\* "<@U9>" has been converted while the maps held other ids.
C9_Witness ==
    /\ conv # None
    /\ conv[1].is_markdown
    /\ conv[1].text = "<@U9>"
    /\ conv[1].result = "@user_U9"
    /\ names = Maps(WsUsers @@ ("W1" :> "Wu"), WsChannels, WsUsergroups)

\* The contents of the link tokens among the converted texts
LinkContents ==
    {"https://x.test|Click", "https://x.test", "",
     "https://x.test/a*b*c|*Click*"}

\* "[display](url)" of a token's content: the parts after and before its
\* pipe, or the content as both
LinkOf(content) ==
    LET k == IndexOf(content, "|", 1)
    IN  IF k = 0 THEN "[" \o content \o "](" \o content \o ")"
        ELSE "[" \o From(content, k + 1) \o "]("
                 \o SubSeq(content, 1, k - 1) \o ")"

\* C11: with is_markdown=True a bracket token whose content starts with none
\* of "@U", "@W", "#C", "!" is emitted as "[display](url)": url the part
\* before the pipe and display the part after it, or the content as both
\* when it has no pipe.
C11_LinkTokens ==
    (conv # None /\ conv[1].is_markdown) =>
        \A content \in LinkContents :
            conv[1].text = "<" \o content \o ">"
                => conv[1].result = LinkOf(content)

\* C12: convert_slack_text never ends in an error: whatever the text and
\* the lookup maps, no call raises, and every call returns a string.
C12_ConverterNeverRaises ==
    /\ exc = None
    /\ pc = "convert"
    /\ conv # None => conv[1].result \in STRING

\* The tokens "<>", "<!subteam^>", "<!date^>" and "<!x>" have been converted
\* under empty maps.
C12_Witness ==
    /\ conv # None
    /\ conv[1].is_markdown
    /\ names = NoNames
    /\ conv[1].text \in {"<><!subteam^>", "<!date^><!x>"}
    /\ conv[1].result \in {"[]()@usergroup_", "@!x"}

\* The text is one bracket token: the bracket pass replaces the whole of it.
OneToken(text) ==
    /\ Len(text) >= 2
    /\ Char(text, 1) = "<"
    /\ IndexOf(text, ">", 1) = Len(text)

\* C18: the passes run in the order bracket tokens, bold, italic, inline
\* code, blockquote, and no later pass rewrites what an earlier pass put
\* out: what the bracket pass makes of a token is in the result as it is,
\* also when it holds "*", "_", a backtick or ">".
C18_LaterPassesKeepEarlierOutput ==
    (conv # None /\ conv[1].is_markdown /\ OneToken(conv[1].text)) =>
        Ok(conv[1].result) = SubBrackets(conv[1].text, 1, names)

\* The contents of the quoted lines among the converted texts
QuoteContents == {"q", "q hello"}

\* C19: with is_markdown=True a line of ">" and content comes out as "> "
\* and the content, with one space, whether the input had no space or one
\* after the ">", and converting the result again leaves it as it is.
C19_QuoteSingleSpace ==
    (conv # None /\ conv[1].is_markdown) =>
        \A content \in QuoteContents :
            conv[1].text \in {">" \o content, "> " \o content} =>
                /\ conv[1].result = "> " \o content
                /\ convert_slack_text(conv[1].result, TRUE, names)
                       = Ok(conv[1].result)

\* The ids of the date tokens and of the usergroup tokens among the
\* converted texts
DateIds == {"12", ""}

UsergroupIds == {"S1", "S9", ""}

\* C20: with is_markdown=True "<!here>" becomes "@here", "<!channel>"
\* "@channel", "<!everyone>" "@everyone", and "<!date^id>" the id as it is,
\* with no date formatting; a "<!subteam^id>" token is not handled as a
\* special mention, which would make "@!subteam^id" of it.
C20_SpecialTokens ==
    (conv # None /\ conv[1].is_markdown) =>
        \A rest \in {"", " hello"} :
            /\ \A word \in {"here", "channel", "everyone"} :
                  conv[1].text = "<!" \o word \o ">" \o rest
                      => conv[1].result = "@" \o word \o rest
            /\ \A id \in DateIds :
                  conv[1].text = "<!date^" \o id \o ">" \o rest
                      => conv[1].result = id \o rest
            /\ \A id \in UsergroupIds :
                  conv[1].text = "<!subteam^" \o id \o ">" \o rest
                      => conv[1].result # "@!subteam^" \o id \o rest

\* The tokens of everyone and of a date have been converted.
C20_Witness ==
    /\ conv # None
    /\ conv[1].is_markdown
    /\ conv[1].text = "<!everyone><!date^12>"
    /\ conv[1].result = "@everyone12"

(***************************************************************************)
(* Properties of the renderer (SpecRenderer)                               *)
(***************************************************************************)
\* The name a heading shows for a message
Author(message) ==
    IF message.user # None THEN message.user[1].name ELSE "Unknown User"

\* The headings of messages and, below each, of its replies, from the k-th
\* message on: level "#"s, the author and the display time
RECURSIVE HeadingsOf(_, _, _)
HeadingsOf(messages, k, level) ==
    IF k > Len(messages) THEN <<>>
    ELSE <<Repeat("#", level) \o " " \o Author(messages[k]) \o " ("
              \o messages[k].ts_display \o ")">>
           \o HeadingsOf(messages[k].replies, 1, level + 1)
           \o HeadingsOf(messages, k + 1, level)

\* The lines of a document that are headings of level 2 or more
HeadingLines(document) ==
    SelectSeq(Split(document, "\n"), LAMBDA line : StartsWith(line, "##"))

\* C13: format_as_markdown renders every top-level message with a heading
\* of level 2 and every message at reply depth d with one of level 2 + d,
\* the headings in depth-first order.
C13_HeadingLevels ==
    pc = "output" =>
        /\ format_as_markdown(channel_history[1]).ok
        /\ HeadingLines(format_as_markdown(channel_history[1]).val)
              = HeadingsOf(Top, 1, 2)

\* The lines the renderer is to emit after the body of a message
LinesAfterBody(message) ==
    Concat([i \in 1..Len(message.attachments) |->
               "* **" \o Str(message.attachments[i].title) \o "** (fallback: "
                   \o message.attachments[i].fallback \o ")\n"])
      \o Concat([i \in 1..Len(message.files) |->
                    "* [" \o (IF message.files[i].title # None
                              THEN message.files[i].title[1]
                              ELSE message.files[i].name)
                         \o "](" \o message.files[i].url \o ")\n"])
      \o (IF message.reactions = <<>> THEN ""
          ELSE "Reactions: "
                 \o Join([i \in 1..Len(message.reactions) |->
                             message.reactions[i].name \o " ("
                                 \o IntToStr(message.reactions[i].count)
                                 \o ")"], ", ") \o "\n")

\* C14: after the body of a message the renderer emits a bullet line per
\* attachment, a bullet link per file (its title, else its name) and, if and
\* only if the message has reactions, one line of their "name (count)"
\* entries with the stored counts; stated of the data of one message.
C14_LinesAfterBody ==
    pc = "output" =>
        /\ format_as_markdown(channel_history[1]).ok
        /\ (Len(Top) = 1 /\ Top[1].replies = <<>>) =>
              format_as_markdown(channel_history[1]).val =
                  "# general\n\n## " \o Author(Top[1]) \o " ("
                      \o Top[1].ts_display \o ")\n" \o Top[1].text \o "\n\n"
                      \o LinesAfterBody(Top[1]) \o "\n"

=============================================================================
